---- MODULE Spec2Model ----
(***************************************************************************)
(* Model of the meter-reader protocol layer: the three response decoders   *)
(* of meterreader_models (and the older copies kept in src/main.rs), the   *)
(* paging plan of Meter::read_samples and the exchange loop of Meter::exec.*)
(*                                                                         *)
(* Three specifications share the variables: SpecDecode runs the decoders  *)
(* on bounded inputs, Spec follows one historical dump of main, SpecApi    *)
(* calls the methods of one Meter in any order.                            *)
(*                                                                         *)
(* Temperatures are modelled exactly, as a sign and a magnitude in tenths  *)
(* of a degree: the code computes f32::from(int) + f32::from(nibble)/10.0, *)
(* a pure function of the two integers the model keeps.                    *)
(***************************************************************************)
EXTENDS Integers, Sequences, FiniteSets, TLC

VARIABLES
    data,         \* SpecDecode: the byte sequence handed to a decoder
    out,          \* SpecDecode: which decoder ran and what it returned
    pc,           \* Spec: position of main / read_samples / exec
    caller,       \* Spec: the method exec returns to
    read_char,    \* Meter.read_char is Some
    write_char,   \* Meter.write_char is Some
    linked,       \* the device's physical link is connected
    duration,     \* args.dump_last: None or Some(seconds)
    section_info, \* index_info: None or Some(MeterSectionInfo)
    samples,      \* read_samples: the offsets the iterator has yet to yield
    planned,      \* history: the offsets the iterator held when it was built
    i,            \* read_samples: the loop variable
    result,       \* read_samples: the accumulated readings
    cmd,          \* exec: the command to write
    response,     \* exec: the buffer returned, with the command it answers
    notify_io,    \* exec: the notification subscription is held
    outstanding,  \* commands written whose notification has not been read
    wire,         \* history: every command written to the write endpoint
    log,          \* history: per decoded response, the offset it was counted for
    stdout,       \* the lines printed: dump_csv's rows, set_time's warning
    failed,       \* history: the await whose Err was propagated, if any
    connect_ok,   \* history: a connect() has returned Ok since the last disconnect()
    calls         \* SpecApi: the number of Meter methods called so far

decodevars == <<data, out>>
metervars == <<read_char, write_char, linked>>
planvars == <<duration, section_info, samples, planned, i, result>>
execvars == <<cmd, response, notify_io, outstanding, wire>>
flowvars == <<pc, caller, metervars, planvars, execvars, log, stdout,
              failed, connect_ok, calls>>
vars == <<decodevars, flowvars>>

(***************************************************************************)
(* Bounds of the model.                                                    *)
(***************************************************************************)
MaxLen == 14        \* longest input over the two-byte body alphabet
MaxShortLen == 6    \* longest input over the rich body alphabet
MaxDataLength == 19 \* largest data_length the modelled device reports
MaxCalls == 3       \* most calls of Meter methods in one behaviour of SpecApi

(***************************************************************************)
(* Program constants.                                                      *)
(***************************************************************************)
RESPONSE_OK == 1
SERVICE_DATA_MARKER == 105
SECTION_INFO_MIN_LEN == 13
SAMPLE_MIN_LEN == 6
WINDOW_STEP == 5
SERVICE_DATA_LEN == 6
CMD_SET_TIME == 5
CMD_READ_INDEX_INFO == 59
CMD_READ_SAMPLE_INFO == 60
SAMPLE_COUNT == 6

(***************************************************************************)
(* Option<T> and a panic (a failed assert!, an index out of bounds, an     *)
(* unwrap of None or Err, a division by zero).                             *)
(***************************************************************************)
None == [kind |-> "None"]
Some(v) == [kind |-> "Some", value |-> v]
Panic(why) == [kind |-> "panic", why |-> why]

(***************************************************************************)
(* u8 bit operations.                                                      *)
(***************************************************************************)
And7f(b) == b % 128                 \* b & 0x7f
Bit7Set(b) == (b \div 128) % 2 = 1  \* (b & 0x80) != 0
HighNibble(b) == (b \div 16) % 16   \* (b >> 4) & 0xf
LowNibble(b) == b % 16              \* b & 0xf

\* data[i..] for a 0-based index i
SliceFrom(s, from) == SubSeq(s, from + 1, Len(s))

\* the bytes read least significant first
RECURSIVE from_le_bytes(_)
from_le_bytes(bytes) ==
    IF bytes = <<>> THEN 0
    ELSE bytes[1] + 256 * from_le_bytes(Tail(bytes))

\* u16::from_be_bytes
RECURSIVE from_be_bytes(_)
from_be_bytes(bytes) ==
    IF bytes = <<>> THEN 0
    ELSE 256 * from_be_bytes(SubSeq(bytes, 1, Len(bytes) - 1)) + bytes[Len(bytes)]

\* u32::from_be_bytes. A u32 does not fit the model checker's integers, so it
\* is kept as its two 16-bit halves: the value is 65536 * hi + lo.
u32_from_be_bytes(bytes) ==
    [hi |-> from_be_bytes(SubSeq(bytes, 1, 2)),
     lo |-> from_be_bytes(SubSeq(bytes, 3, 4))]

\* (lo..hi).step_by(step), the values in iteration order
step_by(lo, hi, step) ==
    [k \in 1..(IF lo >= hi THEN 0 ELSE (hi - lo + step - 1) \div step) |->
        lo + (k - 1) * step]

(***************************************************************************)
(* MeterSectionInfo::from_response                                         *)
(***************************************************************************)
MeterSectionInfo_from_response(d) ==
    IF Len(d) < SECTION_INFO_MIN_LEN \/ d[1] # RESPONSE_OK THEN None
    ELSE Some([start_time  |-> u32_from_be_bytes(SubSeq(d, 2, 5)),
               end_time    |-> u32_from_be_bytes(SubSeq(d, 6, 9)),
               data_length |-> from_be_bytes(SubSeq(d, 10, 11)),
               interval    |-> from_be_bytes(SubSeq(d, 12, 13))])

(***************************************************************************)
(* MeterSampleValue::first_value / second_value on a window &data[i..]     *)
(***************************************************************************)
first_value_assert(w) == Len(w) >= 3
second_value_assert(w) == Len(w) >= 5

first_value(w) ==
    [positive |-> Bit7Set(w[1]),
     tenths   |-> 10 * And7f(w[1]) + HighNibble(w[3]),
     humidity |-> And7f(w[2])]

\* second_value reading the high nibble of the shared byte, as first_value does
second_value_high_nibble(w) ==
    [positive |-> Bit7Set(w[4]),
     tenths   |-> 10 * And7f(w[4]) + HighNibble(w[3]),
     humidity |-> And7f(w[5])]

second_value(w) ==
    [positive |-> Bit7Set(w[4]),
     tenths   |-> 10 * And7f(w[4]) + LowNibble(w[3]),
     humidity |-> And7f(w[5])]

\* the windows &data[i..] of the loop  for i in (1..(data.len() - 1)).step_by(5)
sample_windows(d) ==
    LET idx == step_by(1, Len(d) - 1, WINDOW_STEP)
    IN  [k \in 1..Len(idx) |-> SliceFrom(d, idx[k])]

\* the loop body over the windows: two pushes per window, a failed assert panics
RECURSIVE push_values(_)
push_values(ws) ==
    IF ws = <<>> THEN Some(<<>>)
    ELSE IF ~first_value_assert(Head(ws)) \/ ~second_value_assert(Head(ws))
         THEN Panic("assert")
         ELSE LET rest == push_values(Tail(ws))
              IN  IF rest.kind = "panic" THEN rest
                  ELSE Some(<<first_value(Head(ws)), second_value(Head(ws))>>
                            \o rest.value)

\* meterreader_models: MeterSampleValue::from_response
MeterSampleValue_from_response(d) ==
    IF Len(d) < SAMPLE_MIN_LEN \/ d[1] # RESPONSE_OK
       \/ (Len(d) - 1) % WINDOW_STEP # 0
    THEN None
    ELSE push_values(sample_windows(d))

\* src/main.rs: the older copy of MeterSampleValue::from_response
main_MeterSampleValue_from_response(d) ==
    IF Len(d) < SAMPLE_MIN_LEN \/ d[1] # RESPONSE_OK
    THEN None
    ELSE push_values(sample_windows(d))

(***************************************************************************)
(* MeterValue::from_data                                                   *)
(***************************************************************************)
\* from_data accepting any input of at least 6 bytes
MeterValue_from_data_longer(d) ==
    IF Len(d) < SERVICE_DATA_LEN \/ d[1] # SERVICE_DATA_MARKER THEN None
    ELSE Some([positive |-> Bit7Set(d[5]),
               tenths   |-> 10 * And7f(d[5]) + LowNibble(d[4]),
               humidity |-> And7f(d[6]),
               battery  |-> And7f(d[3])])

MeterValue_from_data(d) ==
    IF Len(d) # SERVICE_DATA_LEN \/ d[1] # SERVICE_DATA_MARKER THEN None
    ELSE Some([positive |-> Bit7Set(d[5]),
               tenths   |-> 10 * And7f(d[5]) + LowNibble(d[4]),
               humidity |-> And7f(d[6]),
               battery  |-> And7f(d[3])])

(***************************************************************************)
(* The fixtures of the repository's tests.                                 *)
(***************************************************************************)
FixtureServiceData == <<105, 0, 228, 9, 152, 40>>
FixtureSamples == <<1, 152, 40, 119, 152, 40, 152, 40, 120, 152, 40>>
FixtureSectionInfo == <<1, 97, 160, 191, 231, 97, 162, 162, 63, 4, 6, 0, 120>>

(***************************************************************************)
(* gen_cmd and the two commands of a historical dump                       *)
(***************************************************************************)
gen_cmd(c, payload_length) ==
    <<87, IF c > 15 THEN 15 ELSE 0, c>> \o [k \in 1..payload_length |-> 0]

\* read_section_info: the command it hands to exec
read_section_info_cmd ==
    [gen_cmd(CMD_READ_INDEX_INFO, 1) EXCEPT ![4] = 0]

\* the offset written low byte first
read_samples_cmd_low_byte_first(o) ==
    [gen_cmd(CMD_READ_SAMPLE_INFO, 4) EXCEPT
        ![4] = 0, ![5] = o % 256, ![6] = (o \div 256) % 256, ![7] = SAMPLE_COUNT]

\* read_samples: the command of the loop body for offset o
read_samples_cmd(o) ==
    [gen_cmd(CMD_READ_SAMPLE_INFO, 4) EXCEPT
        ![4] = 0, ![5] = (o \div 256) % 256, ![6] = o % 256, ![7] = SAMPLE_COUNT]

\* i64::to_be_bytes of a timestamp kept as 16-bit halves (0 <= t < 2^32)
i64_to_be_bytes(t) ==
    <<0, 0, 0, 0, (t.hi \div 256) % 256, t.hi % 256, (t.lo \div 256) % 256, t.lo % 256>>

\* set_time: the command it hands to exec; i = cmd.len() - 10 = 3
set_time_cmd(now) ==
    [k \in 1..13 |->
        IF k = 4 THEN 3
        ELSE IF k = 5 THEN 0
        ELSE IF k >= 6 THEN i64_to_be_bytes(now)[k - 5]
        ELSE gen_cmd(CMD_SET_TIME, 10)[k]]

(***************************************************************************)
(* Meter::read_samples: the iterator over the offsets to request           *)
(***************************************************************************)
Min(a, b) == IF a <= b THEN a ELSE b

\* Iterator::rev and Iterator::take, on the sequence of values yet to come
rev(s) == LET n == Len(s) IN [k \in 1..n |-> s[n + 1 - k]]
take(s, n) == SubSeq(s, 1, Min(n, Len(s)))

\* the range not truncated to whole blocks
all_iter_to_data_length(data_length) ==
    step_by(0, data_length, SAMPLE_COUNT)

\* (0..(data_length / SAMPLE_COUNT) * SAMPLE_COUNT).step_by(SAMPLE_COUNT)
all_iter(data_length) ==
    step_by(0, (data_length \div SAMPLE_COUNT) * SAMPLE_COUNT, SAMPLE_COUNT)

\* the division rounded up
samples_wanted_rounded_up(seconds, interval) ==
    IF interval = 0 THEN None ELSE Some((seconds + interval - 1) \div interval)

\* duration.num_seconds() / interval; None when the division panics
samples_wanted(seconds, interval) ==
    IF interval = 0 THEN None ELSE Some(seconds \div interval)

\* the first blocks instead of the last: take without the two rev
first_n_iter(all, wanted) ==
    take(all, (wanted + SAMPLE_COUNT - 1) \div SAMPLE_COUNT)

\* all_iter.rev().take((samples_wanted + sample_count - 1) / sample_count).rev()
last_n_iter(all, wanted) ==
    rev(take(rev(all), (wanted + SAMPLE_COUNT - 1) \div SAMPLE_COUNT))

\* the block that binds `samples`; a panic when an unwrap or the division fails
read_samples_iter(info, dur) ==
    IF dur = None THEN Some(all_iter(info.data_length))
    ELSE IF dur.value < 0 THEN Panic("unwrap")
    ELSE IF samples_wanted(dur.value, info.interval) = None
         THEN Panic("division by zero")
    ELSE Some(last_n_iter(all_iter(info.data_length),
                          samples_wanted(dur.value, info.interval).value))

(***************************************************************************)
(* The device, as the code sees it: what a notification read after a       *)
(* command may hold.                                                       *)
(***************************************************************************)
to_be_bytes(v) == <<(v \div 256) % 256, v % 256>>

StoreStart == [hi |-> 24992, lo |-> 49127]
StoreEnd == [hi |-> 24994, lo |-> 41535]
Intervals == {0, 9, 60}
Durations == {None, Some(0), Some(60), Some(600)}

SectionResponse(len, interval) ==
    <<RESPONSE_OK>> \o to_be_bytes(StoreStart.hi) \o to_be_bytes(StoreStart.lo)
    \o to_be_bytes(StoreEnd.hi) \o to_be_bytes(StoreEnd.lo)
    \o to_be_bytes(len) \o to_be_bytes(interval)

SectionResponses ==
    {SectionResponse(len, iv) : len \in 0..MaxDataLength, iv \in Intervals}
    \cup {<<>>, <<0, 0, 0, 0, 0, 0, 0, 0, 0, 0, 12, 0, 60>>, <<1, 0, 0, 0, 0, 0, 0, 0, 0, 0, 12>>}

SampleResponses ==
    {<<1, 152, 40, 119, 152, 40>>,
     FixtureSamples,
     <<1, 152, 40, 119, 152, 40, 152, 40, 120, 152, 40, 24, 41, 5, 152, 39>>,
     <<1, 152, 40, 119, 152, 40, 152, 40, 120, 152, 40, 24, 41, 5, 152, 39,
       152, 39, 136, 152, 39>>,
     <<0, 152, 40, 119, 152, 40, 152, 40, 120, 152, 40>>,
     <<1, 152, 40, 119, 152, 40, 152, 40>>}

\* what the device may notify after a set-time command
SetTimeResponses == {<<1>>, <<0>>, <<>>}

\* Local::now().timestamp() of set_time
Timestamps == {StoreEnd, [hi |-> 27463, lo |-> 256]}

DeviceResponses(c) ==
    IF c[3] = CMD_READ_INDEX_INFO THEN SectionResponses
    ELSE IF c[3] = CMD_SET_TIME THEN SetTimeResponses
    ELSE SampleResponses

(***************************************************************************)
(* Inputs of the decoders: every byte sequence up to MaxLen over a small   *)
(* alphabet, every one up to MaxShortLen over a richer alphabet, and the   *)
(* fixtures of the repository's tests.                                     *)
(***************************************************************************)
StatusBytes == {0, RESPONSE_OK, SERVICE_DATA_MARKER}
LongBody == {0, 152}
ShortBody == {0, 9, 119, 152, 255}

\* a section info with interval = 0 and end_time < start_time
OddSectionInfo == <<1, 97, 160, 191, 231, 0, 0, 0, 5, 1, 2, 0, 0, 77, 78>>

Fixtures == {FixtureServiceData, FixtureSamples, FixtureSectionInfo, OddSectionInfo}

IsInput(d) ==
    \/ d = <<>>
    \/ \E n \in 1..MaxLen : \E s \in StatusBytes, b \in [1..(n - 1) -> LongBody] :
          d = <<s>> \o b
    \/ \E n \in 1..MaxShortLen : \E s \in StatusBytes, b \in [1..(n - 1) -> ShortBody] :
          d = <<s>> \o b
    \/ d \in Fixtures

(***************************************************************************)
(* SpecDecode: one decoder is applied to one input.                        *)
(***************************************************************************)
NotRun == [fn |-> "none", res |-> None, windows |-> <<>>]

NoFailure == [at |-> "none", written |-> 0]

\* the state of a Meter right after Meter::new, before main calls anything
MeterNew ==
    /\ read_char = FALSE
    /\ write_char = FALSE
    /\ linked = FALSE
    /\ caller = "main"
    /\ section_info = None
    /\ samples = <<>>
    /\ planned = None
    /\ i = 0
    /\ result = <<>>
    /\ cmd = <<>>
    /\ response = [bytes |-> <<>>, answers |-> <<>>]
    /\ notify_io = FALSE
    /\ outstanding = <<>>
    /\ wire = <<>>
    /\ log = <<>>
    /\ stdout = <<>>
    /\ failed = NoFailure
    /\ connect_ok = FALSE
    /\ calls = 0

InitDecode ==
    /\ IsInput(data)
    /\ out = NotRun
    /\ pc = "decoders"
    /\ duration = None
    /\ MeterNew

DecodeSectionInfo ==
    /\ out = NotRun
    /\ out' = [fn |-> "MeterSectionInfo", windows |-> <<>>,
               res |-> MeterSectionInfo_from_response(data)]
    /\ UNCHANGED <<data, flowvars>>

DecodeSamples ==
    /\ out = NotRun
    /\ out' = [fn |-> "MeterSampleValue",
               windows |-> IF MeterSampleValue_from_response(data) = None
                           THEN <<>> ELSE sample_windows(data),
               res |-> MeterSampleValue_from_response(data)]
    /\ UNCHANGED <<data, flowvars>>

DecodeSamplesMain ==
    /\ out = NotRun
    /\ out' = [fn |-> "main::MeterSampleValue",
               windows |-> IF main_MeterSampleValue_from_response(data) = None
                           THEN <<>> ELSE sample_windows(data),
               res |-> main_MeterSampleValue_from_response(data)]
    /\ UNCHANGED <<data, flowvars>>

DecodeServiceData ==
    /\ out = NotRun
    /\ out' = [fn |-> "MeterValue", windows |-> <<>>,
               res |-> MeterValue_from_data(data)]
    /\ UNCHANGED <<data, flowvars>>

NextDecode ==
    \/ DecodeSectionInfo
    \/ DecodeSamples
    \/ DecodeSamplesMain
    \/ DecodeServiceData

SpecDecode == InitDecode /\ [][NextDecode]_vars

(***************************************************************************)
(* Properties of the decoders (SpecDecode).                                *)
(***************************************************************************)
SampleDecoders == {"MeterSampleValue", "main::MeterSampleValue"}

\* not shaped as a status byte 1 followed by whole 5-byte windows
Malformed(d) == Len(d) < 6 \/ d[1] # 1 \/ (Len(d) - 1) % 5 # 0

\* byte n (counted from 0) of the input
Byte(n) == data[n + 1]

\* C1: from_response returns None for every input that is shorter than 6
\* bytes, or whose first byte is not 1, or whose length minus one is not a
\* multiple of 5 (stated of every copy of from_response in the repository).
C1_MalformedIsRejected ==
    (out.fn \in SampleDecoders /\ Malformed(data)) => out.res = None

\* C1, of the meterreader_models copy alone
C1_ModelsCopyRejects ==
    (out.fn = "MeterSampleValue" /\ Malformed(data)) => out.res = None

\* reading n (counted from 0) of an accepted input, from the bytes of window
\* n / 2, which starts at byte 1 + 5 * (n / 2)
ExpectedReading(n) ==
    LET b0 == Byte(1 + 5 * (n \div 2))
        b1 == Byte(2 + 5 * (n \div 2))
        b2 == Byte(3 + 5 * (n \div 2))
        b3 == Byte(4 + 5 * (n \div 2))
        b4 == Byte(5 + 5 * (n \div 2))
    IN  IF n % 2 = 0
        THEN [positive |-> b0 >= 128,
              tenths   |-> 10 * (IF b0 >= 128 THEN b0 - 128 ELSE b0) + b2 \div 16,
              humidity |-> IF b1 >= 128 THEN b1 - 128 ELSE b1]
        ELSE [positive |-> b3 >= 128,
              tenths   |-> 10 * (IF b3 >= 128 THEN b3 - 128 ELSE b3) + (b2 - 16 * (b2 \div 16)),
              humidity |-> IF b4 >= 128 THEN b4 - 128 ELSE b4]

Reading(t, h) == [positive |-> TRUE, tenths |-> t, humidity |-> h]

\* C2: an accepted input of 5k+1 bytes decodes to exactly 2k readings, reading
\* 2j and 2j+1 from window j as the packing prescribes, windows in input order;
\* the fixture decodes to (24.7,40),(24.7,40),(24.7,40),(24.8,40).
C2_AcceptedDecodesInPairs ==
    (out.fn \in SampleDecoders /\ ~Malformed(data)) =>
        /\ out.res.kind = "Some"
        /\ Len(out.res.value) = 2 * ((Len(data) - 1) \div 5)
        /\ \A n \in 0..(Len(out.res.value) - 1) :
              out.res.value[n + 1] = ExpectedReading(n)
        /\ data = FixtureSamples =>
              out.res.value = <<Reading(247, 40), Reading(247, 40),
                                Reading(247, 40), Reading(248, 40)>>

C2_Witness ==
    /\ out.fn = "MeterSampleValue"
    /\ data = FixtureSamples
    /\ out.res.kind = "Some"
    /\ Len(out.res.value) = 4

\* C3: every window handed to first_value and second_value holds at least 5
\* bytes, and the decoder returns None or Some, never panics (stated of every
\* copy of from_response in the repository).
C3_WindowsAreFull ==
    out.fn \in SampleDecoders =>
        /\ \A k \in 1..Len(out.windows) : Len(out.windows[k]) >= 5
        /\ out.res.kind \in {"None", "Some"}

\* C3, of the meterreader_models copy alone
C3_ModelsCopyWindowsAreFull ==
    out.fn = "MeterSampleValue" =>
        /\ \A k \in 1..Len(out.windows) : Len(out.windows[k]) >= 5
        /\ out.res.kind \in {"None", "Some"}

\* C4: MeterSectionInfo::from_response returns None exactly when the input is
\* shorter than 13 bytes or its first byte is not 1; otherwise the four fields
\* are the big-endian values of bytes 1..4, 5..8, 9..10 and 11..12, whatever
\* they are and whatever follows them.
C4_SectionInfoFields ==
    out.fn = "MeterSectionInfo" =>
        /\ out.res = None <=> (Len(data) < 13 \/ Byte(0) # 1)
        /\ out.res # None =>
              /\ out.res.kind = "Some"
              /\ out.res.value.start_time.hi = 256 * Byte(1) + Byte(2)
              /\ out.res.value.start_time.lo = 256 * Byte(3) + Byte(4)
              /\ out.res.value.end_time.hi = 256 * Byte(5) + Byte(6)
              /\ out.res.value.end_time.lo = 256 * Byte(7) + Byte(8)
              /\ out.res.value.data_length = 256 * Byte(9) + Byte(10)
              /\ out.res.value.interval = 256 * Byte(11) + Byte(12)
        /\ data = FixtureSectionInfo =>
              /\ 65536 * out.res.value.start_time.hi + out.res.value.start_time.lo
                    = 1637924839
              /\ 65536 * out.res.value.end_time.hi + out.res.value.end_time.lo
                    = 1638048319
              /\ out.res.value.data_length = 1030
              /\ out.res.value.interval = 120

\* an accepted section info with interval = 0, end_time < start_time and two
\* bytes after index 12
C4_Witness ==
    /\ out.fn = "MeterSectionInfo"
    /\ data = OddSectionInfo
    /\ out.res.kind = "Some"
    /\ out.res.value.interval = 0
    /\ out.res.value.end_time.hi < out.res.value.start_time.hi
    /\ Len(data) > 13

\* C5: MeterValue::from_data returns None unless the input is exactly 6 bytes
\* with byte 0 = 105; otherwise sign, tenths, humidity and battery come from
\* bytes 4, 3, 5 and 2, humidity and battery within 0..127; the fixture decodes
\* to 24.9 degrees, humidity 40, battery 100.
C5_ServiceDataFields ==
    out.fn = "MeterValue" =>
        /\ out.res = None <=> (Len(data) # 6 \/ Byte(0) # 105)
        /\ out.res # None =>
              /\ out.res.kind = "Some"
              /\ out.res.value.positive <=> Byte(4) >= 128
              /\ out.res.value.tenths =
                    10 * (IF Byte(4) >= 128 THEN Byte(4) - 128 ELSE Byte(4))
                    + (Byte(3) - 16 * (Byte(3) \div 16))
              /\ out.res.value.humidity = (IF Byte(5) >= 128 THEN Byte(5) - 128 ELSE Byte(5))
              /\ out.res.value.battery = (IF Byte(2) >= 128 THEN Byte(2) - 128 ELSE Byte(2))
              /\ out.res.value.humidity \in 0..127
              /\ out.res.value.battery \in 0..127
        /\ data = FixtureServiceData =>
              out.res = Some([positive |-> TRUE, tenths |-> 249,
                              humidity |-> 40, battery |-> 100])

C5_Witness ==
    /\ out.fn = "MeterValue"
    /\ data = FixtureServiceData
    /\ out.res.kind = "Some"
    /\ out.res.value.battery = 100

(***************************************************************************)
(* Spec: one historical dump of main (--dump-historic or --dump-last):     *)
(* Meter::new, read_section_info, read_samples, dump_csv, disconnect.      *)
(* Every await of exec is a step; a transport error at any of them is      *)
(* propagated by `?` up to main, which returns it.                         *)
(***************************************************************************)
Init ==
    /\ data = <<>>
    /\ out = NotRun
    /\ pc = "read_section_info"
    /\ duration \in Durations
    /\ MeterNew

\* an Err that exec swallows: it hands its caller an empty response instead
TransportError_as_no_response ==
    /\ pc' = caller
    /\ notify_io' = FALSE
    /\ outstanding' = <<>>
    /\ response' = [bytes |-> <<>>, answers |-> cmd]
    /\ failed' = [at |-> pc, written |-> Len(wire)]
    /\ UNCHANGED <<decodevars, caller, metervars, planvars, cmd,
                   wire, log, stdout, connect_ok, calls>>

\* `?` on an Err: the locals of exec are dropped and main returns the error
TransportError ==
    /\ pc' = "session_error"
    /\ notify_io' = FALSE
    /\ failed' = [at |-> pc, written |-> Len(wire)]
    /\ UNCHANGED <<decodevars, caller, metervars, planvars, cmd, response,
                   outstanding, wire, log, stdout, connect_ok, calls>>

\* read_section_info, up to its call of exec
ReadSectionInfo ==
    /\ pc = "read_section_info"
    /\ caller = "main"
    /\ cmd' = read_section_info_cmd
    /\ caller' = "read_section_info"
    /\ pc' = "exec"
    /\ UNCHANGED <<decodevars, metervars, planvars, response, notify_io,
                   outstanding, wire, log, stdout, failed, connect_ok, calls>>

\* connect() without its guard: the link is connected and the characteristics
\* are looked up on every call
ConnectNoop_reconnects ==
    /\ pc = "exec"
    /\ read_char
    /\ linked' = TRUE
    /\ pc' = "find_characteristics"
    /\ UNCHANGED <<decodevars, caller, read_char, write_char, planvars, execvars,
                   log, stdout, failed, connect_ok, calls>>

\* exec: self.connect() when the characteristics are already held
ConnectNoop ==
    /\ pc = "exec"
    /\ read_char
    /\ pc' = "notify_io"
    /\ connect_ok' = TRUE
    /\ UNCHANGED <<decodevars, caller, metervars, planvars, execvars, log, stdout,
                   failed, calls>>

\* connect: self.device.connect().await succeeds
ConnectDevice ==
    /\ pc = "exec"
    /\ ~read_char
    /\ linked' = TRUE
    /\ pc' = "find_characteristics"
    /\ UNCHANGED <<decodevars, caller, read_char, write_char, planvars, execvars,
                   log, stdout, failed, connect_ok, calls>>

\* connect: self.device.connect().await fails
ConnectDeviceFails ==
    /\ pc = "exec"
    /\ ~read_char
    /\ TransportError

\* connect keeping the read characteristic only
FindCharacteristicsSome_without_write_char ==
    /\ pc = "find_characteristics"
    /\ read_char' = TRUE
    /\ pc' = "notify_io"
    /\ connect_ok' = TRUE
    /\ UNCHANGED <<decodevars, caller, write_char, linked, planvars, execvars, log,
                   stdout, failed, calls>>

\* connect: find_characteristics returns both characteristics
FindCharacteristicsSome ==
    /\ pc = "find_characteristics"
    /\ read_char' = TRUE
    /\ write_char' = TRUE
    /\ pc' = "notify_io"
    /\ connect_ok' = TRUE
    /\ UNCHANGED <<decodevars, caller, linked, planvars, execvars, log, stdout,
                   failed, calls>>

\* connect: find_characteristics returns None; exec then returns Ok(vec![])
FindCharacteristicsNone ==
    /\ pc = "find_characteristics"
    /\ response' = [bytes |-> <<>>, answers |-> <<>>]
    /\ pc' = caller
    /\ UNCHANGED <<decodevars, caller, metervars, planvars, cmd, notify_io,
                   outstanding, wire, log, stdout, failed, calls>>
    /\ connect_ok' = TRUE

\* connect: find_characteristics fails
FindCharacteristicsFails ==
    /\ pc = "find_characteristics"
    /\ TransportError

\* exec subscribing lazily: the notify session is only acquired when the read
\* future is first polled, that is after the write
NotifyIo_on_first_poll ==
    /\ pc = "notify_io"
    /\ caller # "connect"
    /\ pc' = "write"
    /\ UNCHANGED <<decodevars, caller, metervars, planvars, execvars, log, stdout,
                   failed, connect_ok, calls>>

\* exec: read_char.notify_io() succeeds; buf and read_future are created, the
\* future is not polled yet
NotifyIo ==
    /\ pc = "notify_io"
    /\ caller # "connect"
    /\ notify_io' = TRUE
    /\ pc' = "write"
    /\ UNCHANGED <<decodevars, caller, metervars, planvars, cmd, response,
                   outstanding, wire, log, stdout, failed, connect_ok, calls>>

NotifyIoFails ==
    /\ pc = "notify_io"
    /\ caller # "connect"
    /\ TransportError

\* exec: write_char.unwrap().write_io() and write_io.write(cmd) succeed
Write ==
    /\ pc = "write"
    /\ IF write_char
       THEN /\ outstanding' = Append(outstanding, cmd)
            /\ wire' = Append(wire, cmd)
            /\ pc' = "read"
       ELSE /\ pc' = "panic_unwrap"
            /\ UNCHANGED <<outstanding, wire>>
    /\ UNCHANGED <<decodevars, caller, metervars, planvars, cmd, response,
                   notify_io, log, stdout, failed, connect_ok, calls>>

WriteFails ==
    /\ pc = "write"
    /\ write_char
    /\ TransportError

\* exec giving up on read_future after a while: it returns an empty buffer and
\* leaves the command unanswered
Read_or_give_up ==
    /\ pc = "read"
    /\ \/ /\ \E r \in DeviceResponses(Head(outstanding)) :
                response' = [bytes |-> r, answers |-> Head(outstanding)]
          /\ outstanding' = Tail(outstanding)
       \/ /\ response' = [bytes |-> <<>>, answers |-> <<>>]
          /\ UNCHANGED outstanding
    /\ notify_io' = FALSE
    /\ pc' = caller
    /\ UNCHANGED <<decodevars, caller, metervars, planvars, cmd, wire, log, stdout, failed, connect_ok, calls>>

\* exec: read_future.await yields the device's notification; the buffer is
\* truncated to it, the subscription is dropped and exec returns
Read ==
    /\ pc = "read"
    /\ \E r \in DeviceResponses(Head(outstanding)) :
          response' = [bytes |-> r, answers |-> Head(outstanding)]
    /\ outstanding' = Tail(outstanding)
    /\ notify_io' = FALSE
    /\ pc' = caller
    /\ UNCHANGED <<decodevars, caller, metervars, planvars, cmd, wire, log, stdout, failed, connect_ok, calls>>

ReadFails ==
    /\ pc = "read"
    /\ TransportError

\* read_section_info after exec, and main's `if let Some(index_info)`
ReadSectionInfoReturns ==
    /\ pc = "read_section_info"
    /\ caller = "read_section_info"
    /\ section_info' = MeterSectionInfo_from_response(response.bytes)
    /\ pc' = IF section_info'.kind = "Some" THEN "read_samples" ELSE "disconnect"
    /\ caller' = "main"
    /\ UNCHANGED <<decodevars, metervars, duration, samples, planned, i, result,
                   execvars, log, stdout, failed, connect_ok, calls>>

\* read_samples, up to its for loop: the iterator is built
ReadSamples ==
    /\ pc = "read_samples"
    /\ caller = "main"
    /\ LET it == read_samples_iter(section_info.value, duration)
       IN  IF it.kind = "panic"
           THEN /\ pc' = IF it.why = "division by zero"
                         THEN "panic_division_by_zero" ELSE "panic_unwrap"
                /\ UNCHANGED <<samples, planned, caller>>
           ELSE /\ samples' = it.value
                /\ planned' = it
                /\ caller' = "read_samples"
                /\ pc' = "for_samples"
    /\ result' = <<>>
    /\ UNCHANGED <<decodevars, metervars, duration, section_info, i, execvars, log, stdout, failed, connect_ok, calls>>

\* for i in samples: the next offset, its command, and the call of exec
ForSamples ==
    /\ pc = "for_samples"
    /\ samples # <<>>
    /\ i' = Head(samples)
    /\ samples' = Tail(samples)
    /\ cmd' = read_samples_cmd(Head(samples))
    /\ pc' = "exec"
    /\ UNCHANGED <<decodevars, caller, metervars, duration, section_info, planned,
                   result, response, notify_io, outstanding, wire, log, stdout, failed, connect_ok, calls>>

\* the iterator is exhausted: read_samples returns Ok(result) to main
ForSamplesEnds ==
    /\ pc = "for_samples"
    /\ samples = <<>>
    /\ caller' = "main"
    /\ pc' = "dump_csv"
    /\ UNCHANGED <<decodevars, metervars, planvars, execvars, log, stdout, failed, connect_ok, calls>>

\* a loop body that stops at the first response the decoder rejects and
\* returns what it has
ReadSamplesAppend_stops_at_rejected ==
    /\ pc = "read_samples"
    /\ caller = "read_samples"
    /\ LET r == MeterSampleValue_from_response(response.bytes)
       IN  /\ result' = IF r.kind = "Some" THEN result \o r.value ELSE result
           /\ log' = Append(log, [offset |-> i, answers |-> response.answers,
                                  bytes |-> response.bytes,
                                  added |-> IF r.kind = "Some" THEN Len(r.value) ELSE 0])
           /\ pc' = IF r.kind = "Some" THEN "for_samples" ELSE "dump_csv"
           /\ caller' = IF r.kind = "Some" THEN caller ELSE "main"
    /\ UNCHANGED <<decodevars, metervars, duration, section_info, samples,
                   planned, i, execvars, stdout, failed, connect_ok, calls>>

\* the loop body after exec: the response is decoded and its readings appended
ReadSamplesAppend ==
    /\ pc = "read_samples"
    /\ caller = "read_samples"
    /\ LET r == MeterSampleValue_from_response(response.bytes)
       IN  /\ result' = IF r.kind = "Some" THEN result \o r.value ELSE result
           /\ log' = Append(log, [offset |-> i, answers |-> response.answers,
                                  bytes |-> response.bytes,
                                  added |-> IF r.kind = "Some" THEN Len(r.value) ELSE 0])
           /\ pc' = IF r.kind = "panic" THEN "panic_assert" ELSE "for_samples"
    /\ UNCHANGED <<decodevars, caller, metervars, duration, section_info, samples,
                   planned, i, execvars, stdout, failed, connect_ok, calls>>

\* dump_csv: the rows it prints, one per reading, `interval` apart; `first` is
\* (data_length - samples_len) as the build computed it. Times are kept as
\* seconds after start_time.
dump_csv_rows(info, readings, first) ==
    [k \in 1..Len(readings) |->
        [since_start |-> info.interval * first + (k - 1) * info.interval,
         reading     |-> readings[k]]]

\* dump_csv(&index_info, &samples) when no more readings than data_length
DumpCsv ==
    /\ pc = "dump_csv"
    /\ Len(result) <= section_info.value.data_length
    /\ IF Len(result) > 65535
       THEN pc' = "panic_assert" /\ UNCHANGED stdout
       ELSE /\ stdout' = dump_csv_rows(section_info.value, result,
                                       section_info.value.data_length - Len(result))
            /\ pc' = "disconnect"
    /\ UNCHANGED <<decodevars, caller, metervars, planvars, execvars, log,
                   failed, connect_ok, calls>>

\* dump_csv when data_length - samples_len underflows, overflow checks on
DumpCsvSubtractPanics ==
    /\ pc = "dump_csv"
    /\ Len(result) > section_info.value.data_length
    /\ pc' = IF Len(result) > 65535 THEN "panic_assert" ELSE "panic_overflow"
    /\ UNCHANGED <<decodevars, caller, metervars, planvars, execvars, log, stdout, failed, connect_ok, calls>>

\* dump_csv when data_length - samples_len underflows, overflow checks off:
\* the u16 difference wraps
DumpCsvSubtractWraps ==
    /\ pc = "dump_csv"
    /\ Len(result) > section_info.value.data_length
    /\ IF Len(result) > 65535
       THEN pc' = "panic_assert" /\ UNCHANGED stdout
       ELSE /\ stdout' = dump_csv_rows(section_info.value, result,
                            (section_info.value.data_length - Len(result)) % 65536)
            /\ pc' = "disconnect"
    /\ UNCHANGED <<decodevars, caller, metervars, planvars, execvars, log,
                   failed, connect_ok, calls>>

\* meter.disconnect(): the characteristics are released, then the link
Disconnect ==
    /\ pc = "disconnect"
    /\ read_char' = FALSE
    /\ write_char' = FALSE
    /\ linked' = FALSE
    /\ pc' = "done"
    /\ connect_ok' = FALSE
    /\ UNCHANGED <<decodevars, caller, planvars, execvars, log, stdout, failed, calls>>

\* meter.disconnect(): self.device.disconnect().await fails
DisconnectFails ==
    /\ pc = "disconnect"
    /\ read_char' = FALSE
    /\ write_char' = FALSE
    /\ pc' = "session_error"
    /\ connect_ok' = FALSE
    /\ failed' = [at |-> pc, written |-> Len(wire)]
    /\ UNCHANGED <<decodevars, caller, linked, planvars, execvars, log, stdout, calls>>

Next ==
    \/ ReadSectionInfo
    \/ ConnectNoop
    \/ ConnectDevice
    \/ ConnectDeviceFails
    \/ FindCharacteristicsSome
    \/ FindCharacteristicsNone
    \/ FindCharacteristicsFails
    \/ NotifyIo
    \/ NotifyIoFails
    \/ Write
    \/ WriteFails
    \/ Read
    \/ ReadFails
    \/ ReadSectionInfoReturns
    \/ ReadSamples
    \/ ForSamples
    \/ ForSamplesEnds
    \/ ReadSamplesAppend
    \/ DumpCsv
    \/ DumpCsvSubtractPanics
    \/ DumpCsvSubtractWraps
    \/ Disconnect
    \/ DisconnectFails

Spec == Init /\ [][Next]_vars

(***************************************************************************)
(* SpecApi: the methods of Meter called in any order on one Meter, each    *)
(* call awaited before the next, also after a call that returned Err.      *)
(* The history variables wire, log and stdout restart with every call.     *)
(***************************************************************************)
\* section infos and durations read_samples is called with, besides the ones
\* read_section_info returned: stores whose offsets need the high byte
ApiReadSamplesArgs ==
    {[info |-> [start_time |-> StoreStart, end_time |-> StoreEnd,
                data_length |-> 12, interval |-> 60], duration |-> None],
     [info |-> [start_time |-> StoreStart, end_time |-> StoreEnd,
                data_length |-> 1030, interval |-> 120], duration |-> Some(600)],
     [info |-> [start_time |-> StoreStart, end_time |-> StoreEnd,
                data_length |-> 65535, interval |-> 60], duration |-> Some(600)]}

\* no method of the Meter is running: none was called yet or the last returned
Returned ==
    \/ pc \in {"dump_csv", "disconnect", "done", "session_error", "connect"}
    \/ pc \in {"read_section_info", "read_samples"} /\ caller = "main"

\* the caller's next call: the locals of the last one are gone
NewCall(method, who) ==
    /\ Returned
    /\ calls < MaxCalls
    /\ calls' = calls + 1
    /\ pc' = method
    /\ caller' = who
    /\ samples' = <<>>
    /\ planned' = None
    /\ i' = 0
    /\ result' = <<>>
    /\ cmd' = <<>>
    /\ response' = [bytes |-> <<>>, answers |-> <<>>]
    /\ outstanding' = <<>>
    /\ wire' = <<>>
    /\ log' = <<>>
    /\ stdout' = <<>>
    /\ UNCHANGED <<decodevars, metervars, notify_io, failed, connect_ok>>

CallReadSectionInfo ==
    /\ NewCall("read_section_info", "main")
    /\ section_info' = None
    /\ duration' = Some(60)

CallReadSamples ==
    /\ NewCall("read_samples", "main")
    /\ \E a \in ApiReadSamplesArgs :
          /\ section_info' = Some(a.info)
          /\ duration' = a.duration

CallSetTime ==
    /\ NewCall("set_time", "main")
    /\ section_info' = None
    /\ duration' = None

CallConnect ==
    /\ NewCall("exec", "connect")
    /\ section_info' = None
    /\ duration' = None

CallDisconnect ==
    /\ NewCall("disconnect", "main")
    /\ section_info' = None
    /\ duration' = None

\* connect() called on its own returns Ok(()) with the characteristics held
ConnectReturns ==
    /\ pc = "notify_io"
    /\ caller = "connect"
    /\ pc' = "connect"
    /\ UNCHANGED <<decodevars, caller, metervars, planvars, execvars, log, stdout,
                   failed, connect_ok, calls>>

\* set_time, up to its call of exec
SetTime ==
    /\ pc = "set_time"
    /\ caller = "main"
    /\ \E now \in Timestamps : cmd' = set_time_cmd(now)
    /\ caller' = "set_time"
    /\ pc' = "exec"
    /\ UNCHANGED <<decodevars, metervars, planvars, response, notify_io,
                   outstanding, wire, log, stdout, failed, connect_ok, calls>>

\* set_time after exec: the warning, then Ok(()); main goes on to disconnect
SetTimeReturns ==
    /\ pc = "set_time"
    /\ caller = "set_time"
    /\ stdout' = IF response.bytes = <<>> \/ response.bytes[1] # RESPONSE_OK
                 THEN Append(stdout, [warning |-> "Got non-okay response when setting time"])
                 ELSE stdout
    /\ caller' = "main"
    /\ pc' = "disconnect"
    /\ UNCHANGED <<decodevars, metervars, planvars, execvars, log,
                   failed, connect_ok, calls>>

NextApi ==
    \/ CallReadSectionInfo
    \/ CallReadSamples
    \/ CallSetTime
    \/ CallConnect
    \/ CallDisconnect
    \/ ReadSectionInfo
    \/ SetTime
    \/ ConnectNoop
    \/ ConnectDevice
    \/ ConnectDeviceFails
    \/ FindCharacteristicsSome
    \/ FindCharacteristicsNone
    \/ FindCharacteristicsFails
    \/ ConnectReturns
    \/ NotifyIo
    \/ NotifyIoFails
    \/ Write
    \/ WriteFails
    \/ Read
    \/ ReadFails
    \/ ReadSectionInfoReturns
    \/ SetTimeReturns
    \/ ReadSamples
    \/ ForSamples
    \/ ForSamplesEnds
    \/ ReadSamplesAppend
    \/ Disconnect
    \/ DisconnectFails

\* a new Meter; read_section_info's results are followed up with --dump-last 1m
InitApi ==
    /\ data = <<>>
    /\ out = NotRun
    /\ pc = "read_section_info"
    /\ duration = Some(60)
    /\ MeterNew

SpecApi == InitApi /\ [][NextApi]_vars

(***************************************************************************)
(* Properties of a historical dump (Spec).                                 *)
(***************************************************************************)
IsPrefix(s, t) == Len(s) <= Len(t) /\ s = SubSeq(t, 1, Len(s))
IsSuffix(s, t) == Len(s) <= Len(t) /\ s = SubSeq(t, Len(t) - Len(s) + 1, Len(t))
CeilDiv(a, b) == IF a % b = 0 THEN a \div b ELSE a \div b + 1

\* the offsets of the read-sample-block commands written so far, in order
RequestedOffsets ==
    LET cs == SelectSeq(wire, LAMBDA c : c[3] = 60)
    IN  [k \in 1..Len(cs) |-> 256 * cs[k][5] + cs[k][6]]

\* 0, 6, 12, ... : one offset per whole block of 6
Unbounded(len) == [k \in 1..(len \div 6) |-> 6 * (k - 1)]

Planned == planned.kind = "Some"
DataLength == section_info.value.data_length
Interval == section_info.value.interval
ReturnedOk == pc = "dump_csv"

\* C6: with no duration bound the offsets are 0, 6, 12, ... ascending, each a
\* multiple of 6 below floor(L/6)*6, floor(L/6) of them (none for L < 6, never
\* a trailing partial block), and read_samples requests exactly these.
C6_UnboundedOffsets ==
    (Planned /\ duration = None) =>
        /\ planned.value = Unbounded(DataLength)
        /\ Len(planned.value) = DataLength \div 6
        /\ \A k \in 1..Len(planned.value) :
              /\ planned.value[k] % 6 = 0
              /\ planned.value[k] < (DataLength \div 6) * 6
              /\ planned.value[k] + 6 <= DataLength
              /\ k > 1 => planned.value[k - 1] < planned.value[k]
        /\ DataLength < 6 => planned.value = <<>>
        /\ IsPrefix(RequestedOffsets, planned.value)
        /\ ReturnedOk => RequestedOffsets = planned.value

\* a store with a trailing partial block, dumped whole
C6_Witness ==
    /\ ReturnedOk
    /\ duration = None
    /\ DataLength = 19
    /\ RequestedOffsets = <<0, 6, 12>>

\* the last min(ceil(floor(d / interval) / 6), floor(L / 6)) offsets of 0, 6, ...
ExpectedBounded(d, interval, len) ==
    LET total == len \div 6
        n == Min(CeilDiv(d \div interval, 6), total)
    IN  SubSeq(Unbounded(len), total - n + 1, total)

\* C7: with a duration of d seconds and interval > 0, the offsets are the last
\* min(blocks_wanted, total_blocks) of the unbounded sequence, ascending, where
\* samples_wanted = floor(d / interval), blocks_wanted = ceil(samples_wanted / 6).
C7_BoundedOffsetsAreLastBlocks ==
    (Planned /\ duration # None /\ Interval > 0) =>
        /\ planned.value = ExpectedBounded(duration.value, Interval, DataLength)
        /\ IsPrefix(RequestedOffsets, planned.value)
        /\ ReturnedOk =>
              RequestedOffsets = ExpectedBounded(duration.value, Interval, DataLength)

\* one block wanted of three: the last one, not the first
C7_Witness ==
    /\ ReturnedOk
    /\ duration = Some(60)
    /\ Interval = 60
    /\ DataLength = 18
    /\ RequestedOffsets = <<12>>

\* C8 as stated: the number of offsets is ceil(ceil(d / interval) / 6) capped at
\* floor(L / 6), and the offsets are a suffix of the unbounded sequence.
C8_CountRoundsUpTwice ==
    (Planned /\ duration # None /\ Interval > 0) =>
        /\ Len(planned.value) =
              Min(CeilDiv(CeilDiv(duration.value, Interval), 6), DataLength \div 6)
        /\ IsSuffix(planned.value, Unbounded(DataLength))

\* C8 as amended: the number of offsets is ceil(floor(d / interval) / 6) capped
\* at floor(L / 6), and the offsets are a suffix of the unbounded sequence.
C8_CountRoundsDownThenUp ==
    (Planned /\ duration # None /\ Interval > 0) =>
        /\ Len(planned.value) =
              Min(CeilDiv(duration.value \div Interval, 6), DataLength \div 6)
        /\ IsSuffix(planned.value, Unbounded(DataLength))
        /\ ReturnedOk => Len(RequestedOffsets) = Len(planned.value)

\* 60 s at one sample per 9 s: 6 samples, one block; rounding 60/9 up gives two
C8_Witness ==
    /\ Planned
    /\ duration = Some(60)
    /\ Interval = 9
    /\ DataLength >= 12
    /\ Len(planned.value) = 1

\* C9: with interval = 0 and a duration, read_samples does not divide by zero.
C9_ZeroIntervalIsGuarded ==
    (section_info # None /\ duration # None) =>
        (Interval = 0 => pc # "panic_division_by_zero")

\* C10: one exchange per offset of the plan, in the plan's order; at most one
\* command outstanding; a command is written only once every response before
\* it has been decoded; each response is counted for the offset of the command
\* written last, which is the command it answers.
C10_OneExchangeAtATime ==
    /\ Len(outstanding) <= 1
    /\ ~Planned => RequestedOffsets = <<>>
    /\ Planned =>
          /\ IsPrefix(RequestedOffsets, planned.value)
          /\ ReturnedOk => RequestedOffsets = planned.value
          /\ Len(log) <= Len(RequestedOffsets)
          /\ Len(RequestedOffsets) <= Len(log) + 1
          /\ (pc \in {"for_samples", "exec", "find_characteristics", "notify_io", "write"})
                => (Len(log) = Len(RequestedOffsets) /\ outstanding = <<>>)
          /\ \A k \in 1..Len(log) :
                /\ log[k].offset = planned.value[k]
                /\ log[k].offset = RequestedOffsets[k]
                /\ log[k].answers = wire[Len(wire) - Len(RequestedOffsets) + k]
                /\ 256 * log[k].answers[5] + log[k].answers[6] = log[k].offset

\* a dump of three blocks, each answered before the next was requested
C10_Witness ==
    /\ ReturnedOk
    /\ Len(planned.value) = 3
    /\ RequestedOffsets = planned.value
    /\ Len(log) = 3
    /\ outstanding = <<>>

\* ---------------------------------------------------------------------------
\* C11. In every exchange of exec the subscription on the read characteristic
\* is established before the command is written (and while nothing is pending),
\* the command is written under the subscription, the read that ends the
\* exchange comes after that write and returns the notification answering the
\* command just written, and on the path that returns a response the
\* subscription is released by nothing but that read; otherwise it is released
\* only when exec propagates an Err.
C11_SubscribeWriteReadRelease ==
    [][ /\ (~notify_io /\ notify_io') =>
              (pc = "notify_io" /\ wire' = wire /\ outstanding = <<>>)
        /\ (wire' # wire) =>
              /\ notify_io /\ notify_io'
              /\ wire' = Append(wire, cmd)
              /\ outstanding' = <<cmd>>
              /\ pc' = "read"
        /\ (response' # response) => (pc = "read" /\ failed' = failed)
        /\ (pc = "read" /\ pc' # "read" /\ failed' = failed) =>
              /\ notify_io /\ ~notify_io'
              /\ wire[Len(wire)] = cmd
              /\ response'.answers = cmd
              /\ outstanding' = <<>>
              /\ wire' = wire
        /\ (notify_io /\ ~notify_io') => (pc = "read" \/ failed' # failed)
      ]_vars

\* a sample block has been read: its exchange, the second of the dump, is over
C11_Witness ==
    /\ pc = "read_samples"
    /\ caller = "read_samples"
    /\ ~notify_io
    /\ Len(wire) >= 2
    /\ response.answers = wire[Len(wire)]
    /\ response.bytes # <<>>

\* ---------------------------------------------------------------------------
\* the readings read_samples holds after the first k responses when every
\* malformed response counts for nothing
RECURSIVE AccumulatedWithoutMalformed(_)
AccumulatedWithoutMalformed(k) ==
    IF k = 0 THEN <<>>
    ELSE AccumulatedWithoutMalformed(k - 1) \o
         (IF Malformed(log[k].bytes) THEN <<>>
          ELSE MeterSampleValue_from_response(log[k].bytes).value)

\* C12. A response the sample-block decoder rejects adds no reading; the
\* readings of the other responses are all kept, in order; no offset is
\* requested twice; and when read_samples returns, every offset of the plan
\* has been requested and answered, malformed responses or not.
C12_MalformedIsSkipped ==
    /\ \A k \in 1..Len(log) :
          /\ Malformed(log[k].bytes) => log[k].added = 0
          /\ ~Malformed(log[k].bytes) => log[k].added > 0
    /\ result = AccumulatedWithoutMalformed(Len(log))
    /\ \A j, k \in 1..Len(RequestedOffsets) :
          j < k => RequestedOffsets[j] < RequestedOffsets[k]
    /\ (ReturnedOk /\ Planned) =>
          /\ Len(log) = Len(planned.value)
          /\ RequestedOffsets = planned.value

\* a dump of three blocks whose second response was malformed: the first and
\* the third are in the result
C12_Witness ==
    /\ ReturnedOk
    /\ Len(log) = 3
    /\ log[1].added > 0
    /\ Malformed(log[2].bytes)
    /\ log[3].added > 0
    /\ Len(result) = log[1].added + log[3].added

\* ---------------------------------------------------------------------------
\* the awaits of one exchange: device.connect, find_characteristics,
\* notify_io, write_io/write, read_future (named by the step that awaits)
ExchangeAwaits == {"exec", "find_characteristics", "notify_io", "write", "read"}

\* C13. Once an await of an exchange of the dump has returned Err, the session
\* is over: the error is what main returns, no command has been written since,
\* the readings of earlier offsets are not printed (no CSV row at all), and
\* the session ends in no other way than by a propagated Err.
C13_TransportErrorIsFatal ==
    /\ failed.at \in ExchangeAwaits =>
          /\ pc = "session_error"
          /\ Len(wire) = failed.written
          /\ stdout = <<>>
    /\ pc = "session_error" => failed.at \in ExchangeAwaits \cup {"disconnect"}
    /\ failed.at = "disconnect" => pc = "session_error"

\* the read of the second block failed: a block was already accumulated,
\* more offsets were planned, nothing is printed
C13_Witness ==
    /\ failed.at = "read"
    /\ Len(log) >= 1
    /\ Len(result) > 0
    /\ samples # <<>>
    /\ pc = "session_error"
    /\ stdout = <<>>

\* ---------------------------------------------------------------------------
\* C17. Whatever the device answers, read_samples never holds more readings
\* than data_length (nor more than 65535), so in dump_csv the assertion holds
\* and data_length - samples_len does not underflow; the first row printed is
\* interval * (data_length - number of readings) after start_time and every
\* further row one interval after the row before it.
C17_SamplesFitDataLength ==
    /\ section_info.kind = "Some" =>
          /\ Len(result) <= DataLength
          /\ Len(result) <= 65535
    /\ pc \notin {"panic_overflow", "panic_assert"}
    /\ stdout # <<>> =>
          /\ Len(stdout) = Len(result)
          /\ stdout[1].since_start = Interval * (DataLength - Len(result))
          /\ \A k \in 1..(Len(stdout) - 1) :
                stdout[k + 1].since_start = stdout[k].since_start + Interval

\* ---------------------------------------------------------------------------
\* the read-sample-block commands written during the current call, in order
SampleCommands ==
    LET IsSampleCommand(c) == c[3] = 60
    IN  SelectSeq(wire, IsSampleCommand)

\* the payload length each method passes to gen_cmd, by opcode
PayloadLength(opcode) ==
    IF opcode = 60 THEN 4 ELSE IF opcode = 59 THEN 1 ELSE 10

\* C14. While read_samples exchanges the block at offset i of its plan (a
\* 16-bit value), the command is exactly <<0x57, 0x0F, 60, 0, i >> 8, i & 0xFF,
\* 6>>, and that is what gets written; every read-sample-block command written
\* is this frame for an offset o of the plan, seven bytes, o being read back
\* as the big-endian value of bytes 5 and 6 (payload bytes 1..2). Every
\* command written has 3 + payload length bytes, starts with 0x57, and
\* carries 0x0F in its second byte exactly when its opcode exceeds 0x0F and 0
\* otherwise.
C14_SampleCommandFrame ==
    /\ \A k \in 1..Len(wire) :
          LET c == wire[k]
          IN  /\ Len(c) = 3 + PayloadLength(c[3])
              /\ c[1] = 87
              /\ c[3] \in {5, 59, 60}
              /\ c[2] = (IF c[3] > 15 THEN 15 ELSE 0)
    /\ (caller = "read_samples" /\ pc \in ExchangeAwaits) =>
          /\ i \in 0..65535
          /\ cmd = <<87, 15, 60, 0, i \div 256, i % 256, 6>>
          /\ pc = "read" => wire[Len(wire)] = cmd
    /\ ~Planned => SampleCommands = <<>>
    /\ Planned =>
          \A k \in 1..Len(SampleCommands) :
              LET c == SampleCommands[k]
              IN  /\ Len(c) = 7
                  /\ \E j \in k..Len(planned.value) :
                        LET o == planned.value[j]
                        IN  /\ o \in 0..65535
                            /\ c = <<87, 15, 60, 0, o \div 256, o % 256, 6>>
                            /\ 256 * c[5] + c[6] = o

\* the last two blocks of a store of 65535 readings were requested: offsets
\* 65520 (0xFFF0) and 65526 (0xFFF6)
C14_Witness ==
    /\ Planned
    /\ planned.value = <<65520, 65526>>
    /\ wire = <<<<87, 15, 60, 0, 255, 240, 6>>, <<87, 15, 60, 0, 255, 246, 6>>>>

\* ---------------------------------------------------------------------------
\* C15. Once a connect() has returned Ok on a Meter and until disconnect() is
\* called, a connect() does nothing: it goes straight on without connecting
\* the link and without looking up or changing the characteristics.
C15_ConnectAfterOkIsNoop ==
    [][ (connect_ok /\ pc = "exec") =>
            (pc' = "notify_io" /\ UNCHANGED metervars) ]_vars

\* C15, amended. Once a connect() has found the characteristics (read_char
\* is present) and until disconnect() is called, a connect() does nothing: it
\* goes straight on without connecting the link and without looking up or
\* changing the characteristics; nothing but disconnect() releases the
\* characteristics or the link. A connect() on a Meter that holds no
\* characteristics, also after a connect() that returned Ok without finding
\* them, connects the link and looks them up again.
C15_ConnectWithCharacteristicsIsNoop ==
    [][ /\ (read_char /\ pc = "exec") =>
              /\ connect_ok
              /\ pc' = "notify_io"
              /\ UNCHANGED metervars
        /\ (~read_char /\ pc = "exec") =>
              \/ pc' = "find_characteristics" /\ linked'
              \/ pc' = "session_error" /\ UNCHANGED metervars
        /\ ((read_char /\ ~read_char') \/ (write_char /\ ~write_char')
                \/ (linked /\ ~linked')) => pc = "disconnect"
      ]_vars

\* the connect() at the start of the second exec of a call: the first exec
\* of the call wrote its command, so the characteristics were held before
C15_Witness ==
    /\ pc = "notify_io"
    /\ caller = "read_samples"
    /\ Len(wire) >= 1
    /\ read_char
    /\ write_char
    /\ linked
    /\ connect_ok

\* ---------------------------------------------------------------------------
\* C16. Whatever methods of a Meter are called, in whatever order and also
\* after calls that returned an Err, read_char is present exactly when
\* write_char is; exec gets past connect() to its subscription, write and
\* read only with both present, so write_char.unwrap() never panics.
C16_CharacteristicsComeInPairs ==
    /\ read_char <=> write_char
    /\ pc # "panic_unwrap"
    /\ pc \in {"notify_io", "write", "read"} => (read_char /\ write_char)
    /\ notify_io => (read_char /\ write_char)

\* a disconnect() failed, and a later call connected again and is about to
\* unwrap write_char
C16_Witness ==
    /\ failed.at = "disconnect"
    /\ calls >= 2
    /\ pc = "write"
    /\ read_char
    /\ write_char
====
